---------------------------- MODULE Spec2Model ----------------------------
(***************************************************************************)
(* declcfg-inline-bundles: the channel-head resolver (Channel.Head), the   *)
(* rewriting of a bundle's property list (prune / inline), and the run of  *)
(* the command over a catalog.                                             *)
(*                                                                         *)
(* The sources hold two revisions of the command:                          *)
(*   "walk"    src/main.go: one errgroup task per catalog file             *)
(*             (declcfg.WalkFS), inline payloads, in-place write-back;     *)
(*   "inliner" the `package main` part of                                  *)
(*             src/vendor/.../pkg/model/model.go (lines 281-527): the      *)
(*             sequential inliner type (InlineBundles,                     *)
(*             PopulateBundleObjects, deleteBundleObjects).                *)
(* Both are modelled; the variable impl says which one a behaviour runs.   *)
(***************************************************************************)
EXTENDS Integers, Sequences, FiniteSets, TLC

VARIABLES
    channel,    \* SpecHead: the Channel whose head is asked for (Bundles map)
    headRes,    \* SpecHead: what Channel.Head returned
    impl,       \* which revision of the command runs: "walk" or "inliner"
    bundle,     \* SpecBundle: one declcfg.Bundle, rewritten in place
    trail,      \* SpecBundle: the last operations applied to bundle, oldest first
    args,       \* Spec: the command line: [prune: the flag, images: args[1:]]
    catalog,    \* Spec: the catalog on disk when the run starts
    run,        \* Spec: where the command's Run function is, and how it ended
    nonChannelHeads, \* Spec: the set of non-channel-head images
    mem,        \* Spec: the loaded bundles (fcfg.Bundles / i.cfg.Bundles), by name
    disk,       \* Spec: the catalog files on disk
    extFiles,   \* Spec: the external manifest files that exist
    task,       \* Spec: the per-file tasks (walk) and the sequential loop (inliner)
    scratch,    \* Spec: the scratch directories that exist, by creator
    trace       \* Spec: what the run did: images pulled and unpacked, bundles rewritten

headVars == <<channel, headRes>>
bundleVars == <<bundle, trail>>
runVars == <<args, catalog, run, nonChannelHeads, mem, disk, extFiles, task, scratch, trace>>
vars == <<channel, headRes, impl, bundle, trail,
          args, catalog, run, nonChannelHeads, mem, disk, extFiles, task, scratch, trace>>

Range(s) == {s[i] : i \in DOMAIN s}

\* All orders in which a Go `range` over a map with key set S may visit it.
Orders(S) == {s \in [1..Cardinality(S) -> S] : Range(s) = S}

(***************************************************************************)
(* Properties and bundles                                                  *)
(***************************************************************************)
\* property.TypeBundleObject, the type main.go:90 and model.go:518 test for.
TypeBundleObject == "olm.bundle.object"

\* A property.Property: Type and Value.  The Value is kept decoded: Kind says
\* what json.Unmarshal into a property.BundleObject finds ("data": an inline
\* payload, "ref": a file reference, "bad": not decodable, "raw": the value
\* of a property of another type) and Body is the payload, path or text.
OtherProps ==
    {[Type |-> "olm.package", Kind |-> "raw", Body |-> "pkg"],
     [Type |-> "olm.gvk", Kind |-> "raw", Body |-> "gvk"]}
ObjectProps ==
    {[Type |-> TypeBundleObject, Kind |-> "data", Body |-> "{old}"],
     [Type |-> TypeBundleObject, Kind |-> "ref", Body |-> "objects/old.yaml"],
     [Type |-> TypeBundleObject, Kind |-> "bad", Body |-> "{"]}
Props == OtherProps \cup ObjectProps

\* The manifest files an image may hold, in the order a directory walk lists
\* them (lexical), and what each holds.
ManifestFiles == <<"a.yaml", "b.yaml">>
ManifestBytes(f) == IF f = "a.yaml" THEN "A" ELSE "B"
\* The contents an image may have: the sub-lists of ManifestFiles.
ImageContents == {<<>>, <<"a.yaml">>, <<"b.yaml">>, <<"a.yaml", "b.yaml">>}

EmptyBundle == [Name |-> "", Properties |-> <<>>, Objects |-> <<>>, CsvJSON |-> ""]

\* The variables of a run, in the specifications that run no command.
RunIdle ==
    /\ args = [prune |-> FALSE, images |-> <<>>]
    /\ catalog = <<>>
    /\ run = "idle"
    /\ nonChannelHeads = {}
    /\ mem = <<>>
    /\ disk = <<>>
    /\ extFiles = {}
    /\ task = <<>>
    /\ scratch = {}
    /\ trace = <<>>

(***************************************************************************)
(* Channel.Head                                                            *)
(***************************************************************************)
BundleNames == {"a", "b", "c"}
\* A name that replaces/skips may mention although no bundle of the channel
\* carries it.
OutsideName == "x"
MaxSkips == 2

NoBundle == "<nil>"
NoError == ""
ErrNoHead == "no channel head found in graph"
ErrMultipleHeads == "multiple channel heads found in graph"
NotCalled == [bundle |-> NoBundle, err |-> "not called", names |-> <<>>]

\* The entries <<bundle key, index>> of all Skips lists of the channel.
SkipEntries(ch) == UNION {{<<k, i>> : i \in DOMAIN ch[k].Skips} : k \in DOMAIN ch}

\* Faulty variant: the skips loop (model.go:136-138) left out.
IncomingNoSkips(ch) ==
    LET mentioned == {ch[k].Replaces : k \in DOMAIN ch} \ {""}
    IN  [n \in mentioned |-> Cardinality({k \in DOMAIN ch : ch[k].Replaces = n})]

\* Faulty variant: an edge from a bundle to itself is not counted.
IncomingNoSelf(ch) ==
    LET mentioned ==
            ({ch[k].Replaces : k \in {j \in DOMAIN ch : ch[j].Replaces # ch[j].Name}} \ {""})
            \cup UNION {Range(ch[k].Skips) \ {ch[k].Name} : k \in DOMAIN ch}
    IN  [n \in mentioned |->
            Cardinality({k \in DOMAIN ch : ch[k].Replaces = n /\ ch[k].Name # n})
            + Cardinality({p \in SkipEntries(ch) :
                              ch[p[1]].Skips[p[2]] = n /\ ch[p[1]].Name # n})]

\* The map `incoming` after the first loop of Head: bundle name -> number of
\* replaces/skips entries that mention it.  Only mentioned names are keys.
Incoming(ch) ==
    LET mentioned ==
            ({ch[k].Replaces : k \in DOMAIN ch} \ {""})
            \cup UNION {Range(ch[k].Skips) : k \in DOMAIN ch}
    IN  [n \in mentioned |->
            Cardinality({k \in DOMAIN ch : ch[k].Replaces = n})
            + Cardinality({p \in SkipEntries(ch) : ch[p[1]].Skips[p[2]] = n})]

\* Faulty variant: the len(heads) > 1 test left out, heads[0] returned.
HeadFirstOfMany(ch, order) ==
    LET inc == Incoming(ch)
        IsHead(k) == ch[k].Name \notin DOMAIN inc
        heads == SelectSeq(order, IsHead)
    IN  IF Len(heads) = 0
        THEN [bundle |-> NoBundle, err |-> ErrNoHead, names |-> <<>>]
        ELSE [bundle |-> heads[1], err |-> NoError, names |-> <<>>]

\* Channel.Head.  order is the order in which the second `range c.Bundles`
\* visits the map (unspecified in Go); the result names a bundle by its key.
ChannelHead(ch, order) ==
    LET inc == Incoming(ch)
        IsHead(k) == ch[k].Name \notin DOMAIN inc
        heads == SelectSeq(order, IsHead)
    IN  IF Len(heads) = 0
        THEN [bundle |-> NoBundle, err |-> ErrNoHead, names |-> <<>>]
        ELSE IF Len(heads) > 1
        THEN [bundle |-> NoBundle, err |-> ErrMultipleHeads,
              names |-> [i \in 1..Len(heads) |-> ch[heads[i]].Name]]
        ELSE [bundle |-> heads[1], err |-> NoError, names |-> <<>>]

\* Skips lists: the entries of alloc (pairs <<bundle, skipped name>>) that
\* belong to bundle k, in order.
SkipsOf(alloc, k) ==
    LET Mine(p) == p[1] = k
        mine == SelectSeq(alloc, Mine)
    IN  [i \in 1..Len(mine) |-> mine[i][2]]

SkipAllocs ==
    UNION {[1..n -> BundleNames \X (BundleNames \cup {OutsideName})] : n \in 0..MaxSkips}

\* A channel as ConvertToModel builds it: Bundles keyed by bundle name.
InitHead ==
    /\ \E present \in SUBSET BundleNames :
       \E repl \in [present -> BundleNames \cup {OutsideName, ""}] :
       \E alloc \in SkipAllocs :
            channel = [k \in present |->
                         [Name |-> k, Replaces |-> repl[k], Skips |-> SkipsOf(alloc, k)]]
    /\ headRes = NotCalled
    /\ impl = "walk"
    /\ bundle = EmptyBundle
    /\ trail = <<>>
    /\ RunIdle

CallHead ==
    /\ headRes = NotCalled
    /\ \E order \in Orders(DOMAIN channel) : headRes' = ChannelHead(channel, order)
    /\ UNCHANGED <<channel, impl, bundleVars, runVars>>

NextHead == CallHead

SpecHead == InitHead /\ [][NextHead]_vars

\* The claims' own reading of the graph: bundle k has no incoming edge when no
\* bundle of the channel replaces or skips it.
HasIncomingEdge(ch, k) ==
    \E c \in DOMAIN ch :
        \/ ch[c].Replaces = ch[k].Name
        \/ \E i \in DOMAIN ch[c].Skips : ch[c].Skips[i] = ch[k].Name

Candidates(ch) == {k \in DOMAIN ch : ~HasIncomingEdge(ch, k)}

\* C1: in a channel where exactly one bundle has no incoming replaces/skips
\* edge, Head returns that bundle and no error.
C1_HeadReturnsUniqueCandidate ==
    (headRes # NotCalled /\ Cardinality(Candidates(channel)) = 1)
        => \E k \in Candidates(channel) :
                headRes = [bundle |-> k, err |-> NoError, names |-> <<>>]

C1_Witness ==
    /\ headRes # NotCalled
    /\ Cardinality(DOMAIN channel) = 3
    /\ Cardinality(Candidates(channel)) = 1
    /\ \E k \in DOMAIN channel : Len(channel[k].Skips) > 0
    /\ headRes.err = NoError
    /\ headRes.bundle \in Candidates(channel)

\* C2: in a channel where two or more bundles have no incoming edge, Head
\* returns no bundle and a multiple-heads error that names exactly those bundles.
C2_MultipleHeadsNamed ==
    (headRes # NotCalled /\ Cardinality(Candidates(channel)) >= 2)
        => /\ headRes.bundle = NoBundle
           /\ headRes.err = ErrMultipleHeads
           /\ Range(headRes.names) = {channel[k].Name : k \in Candidates(channel)}
           /\ Len(headRes.names) = Cardinality(Candidates(channel))

C2_Witness ==
    /\ headRes.err = ErrMultipleHeads
    /\ Cardinality(DOMAIN channel) = 3
    /\ Cardinality(Candidates(channel)) = 2
    /\ Len(headRes.names) = 2

\* C3: in a channel where every bundle has an incoming edge (cycles and
\* self-edges included), Head returns no bundle and the no-head error.
C3_NoHeadError ==
    (headRes # NotCalled /\ Candidates(channel) = {})
        => headRes = [bundle |-> NoBundle, err |-> ErrNoHead, names |-> <<>>]

C3_Witness ==
    /\ headRes.err = ErrNoHead
    /\ \E k \in DOMAIN channel : channel[k].Replaces = k \/ k \in Range(channel[k].Skips)
    /\ Cardinality(DOMAIN channel) >= 2

(***************************************************************************)
(* Rewriting a bundle's property list                                      *)
(***************************************************************************)
MaxProps == 3

RECURSIVE SeqsUpTo(_, _)
SeqsUpTo(S, n) ==
    IF n = 0 THEN {<<>>}
    ELSE LET shorter == SeqsUpTo(S, n - 1)
         IN  shorter \cup {Append(s, x) : s \in {t \in shorter : Len(t) = n - 1}, x \in S}

IsObject(p) == p.Type = TypeBundleObject

\* Faulty variant: the kept properties pushed to the front instead of appended.
NonObjectPropsReversed(props) ==
    LET Keep(p) == p.Type # TypeBundleObject
        kept == SelectSeq(props, Keep)
    IN  [i \in 1..Len(kept) |-> kept[Len(kept) + 1 - i]]

\* The filter loop of both branches of main.go (88-93, 127-131): the
\* properties whose type is not olm.bundle.object, appended in order to
\* b.Properties[:0].
NonObjectProps(props) ==
    LET Keep(p) == p.Type # TypeBundleObject
    IN  SelectSeq(props, Keep)

\* Faulty variant: the prune branch reports a prune whenever it ran.
PruneBranchAlwaysLogs(b) ==
    [bundle |-> [b EXCEPT !.Properties = NonObjectProps(b.Properties)], logged |-> TRUE]

\* main.go:87-98, the prune branch on bundle b: the new fcfg.Bundles[i] and
\* whether "pruned olm.bundle.object properties" is logged.
PruneBranch(b) ==
    LET props == NonObjectProps(b.Properties)
    IN  [bundle |-> [b EXCEPT !.Properties = props],
         logged |-> Len(props) # Len(b.Properties)]

\* json.Marshal of an object read from the image (main.go:144).
Marshal(obj) == "{" \o obj \o "}"

\* Faulty variant: the property built with another type tag.
BundleObjectDataMistyped(objJson) == [Type |-> "olm.bundle.objects", Kind |-> "data", Body |-> objJson]

\* property.MustBuildBundleObjectData (main.go:148).
BundleObjectData(objJson) == [Type |-> TypeBundleObject, Kind |-> "data", Body |-> objJson]

\* property.MustBuildBundleObjectRef (model.go:474).
BundleObjectRef(ref) == [Type |-> TypeBundleObject, Kind |-> "ref", Body |-> ref]

\* The index of the first olm.bundle.object property json.Unmarshal fails on
\* (main.go:133), 0 when there is none.
FirstUndecodable(props) ==
    LET bad == {i \in DOMAIN props : IsObject(props[i]) /\ props[i].Kind = "bad"}
    IN  IF bad = {} THEN 0 ELSE CHOOSE i \in bad : \A j \in bad : i <= j

\* main.go:127-152, the rewriting of the inline branch on bundle b with the
\* objects objs of the unpacked image (ii.Bundle.Objects).  The filter runs
\* in place over b.Properties' backing array, which fcfg.Bundles[i] shares:
\* when a property cannot be decoded the task returns (ok = FALSE) and
\* fcfg.Bundles[i].Properties is left with the kept properties written over
\* its first slots.  removed: the references whose file os.RemoveAll is
\* called on (main.go:137-139).
InlineBranch(b, objs) ==
    LET bad == FirstUndecodable(b.Properties)
        seen == IF bad = 0 THEN b.Properties ELSE SubSeq(b.Properties, 1, bad - 1)
        kept == NonObjectProps(seen)
        removed == {seen[i].Body : i \in {j \in DOMAIN seen :
                                            IsObject(seen[j]) /\ seen[j].Kind = "ref"}}
    IN  IF bad # 0
        THEN [ok |-> FALSE,
              bundle |-> [b EXCEPT !.Properties =
                            kept \o SubSeq(b.Properties, Len(kept) + 1, Len(b.Properties))],
              removed |-> removed]
        ELSE [ok |-> TRUE,
              bundle |-> [b EXCEPT !.Properties =
                            kept \o [i \in 1..Len(objs) |-> BundleObjectData(Marshal(objs[i]))]],
              removed |-> removed]

\* deleteBundleObjects (model.go:507-526): the bundle after it and its result.
DeleteBundleObjects(b) ==
    LET Keep(p) == ~(p.Type = TypeBundleObject)
    IN  [bundle |-> [b EXCEPT !.CsvJSON = "", !.Objects = <<>>,
                              !.Properties = SelectSeq(b.Properties, Keep)],
         deleted |-> \/ Len(b.Objects) > 0
                     \/ \E i \in DOMAIN b.Properties : b.Properties[i].Type = TypeBundleObject]

\* model.go:459-480 of PopulateBundleObjects on bundle b with the manifest
\* files of the unpacked image, visited in WalkDir's lexical order.  failAt = 0:
\* the walk succeeds; failAt = k: the walk fails at its k-th step (the walk
\* callback's err, or ReadFile), after k - 1 files were appended.
PopulateObjects(b, files, failAt) ==
    LET cleared == DeleteBundleObjects(b).bundle
        n == IF failAt = 0 THEN Len(files) ELSE failAt - 1
    IN  [ok |-> failAt = 0,
         bundle |-> [cleared EXCEPT
            !.Properties = @ \o [i \in 1..n |->
                                    BundleObjectRef("objects/" \o b.Name \o "/" \o files[i])],
            !.Objects = @ \o [i \in 1..n |-> ManifestBytes(files[i])]]]

\* The steps at which the walk over files may fail.
WalkFailures(files) == 1..(IF Len(files) = 0 THEN 1 ELSE Len(files))

\* A bundle as the loader hands it over: Objects holds one entry for every
\* olm.bundle.object property it could decode, CsvJSON what it extracted
\* from them.
LoadedBundle(name, props) ==
    LET Decodable(p) == IsObject(p) /\ p.Kind # "bad"
        objs == SelectSeq(props, Decodable)
    IN  [Name |-> name, Properties |-> props,
         Objects |-> [i \in 1..Len(objs) |-> objs[i].Body],
         CsvJSON |-> IF Len(objs) > 0 THEN "csv" ELSE ""]

\* trail keeps the last two operations.
Push(t, r) == IF Len(t) < 2 THEN Append(t, r) ELSE Append(Tail(t), r)

\* No operation follows a failed one: the task (the run) returns there.
CanApply == IF trail = <<>> THEN TRUE ELSE trail[Len(trail)].ok

InitBundle ==
    /\ impl \in {"walk", "inliner"}
    /\ \E props \in SeqsUpTo(Props, MaxProps) : bundle = LoadedBundle("v1", props)
    /\ trail = <<>>
    /\ channel = <<>>
    /\ headRes = NotCalled
    /\ RunIdle

\* main.go:87-98
Prune ==
    /\ impl = "walk"
    /\ CanApply
    /\ LET r == PruneBranch(bundle)
       IN  /\ bundle' = r.bundle
           /\ trail' = Push(trail, [op |-> "prune", before |-> bundle, after |-> r.bundle,
                                    ok |-> TRUE, reported |-> r.logged, files |-> <<>>])
    /\ UNCHANGED <<impl, headVars, runVars>>

\* main.go:127-152
Inline ==
    /\ impl = "walk"
    /\ CanApply
    /\ \E files \in ImageContents :
        LET objs == [i \in 1..Len(files) |-> ManifestBytes(files[i])]
            r == InlineBranch(bundle, objs)
        IN  /\ bundle' = r.bundle
            /\ trail' = Push(trail, [op |-> "inline", before |-> bundle, after |-> r.bundle,
                                     ok |-> r.ok, reported |-> r.ok, files |-> files])
    /\ UNCHANGED <<impl, headVars, runVars>>

\* model.go:413, deleteBundleObjects on a non-channel-head
DeleteObjects ==
    /\ impl = "inliner"
    /\ CanApply
    /\ LET r == DeleteBundleObjects(bundle)
       IN  /\ bundle' = r.bundle
           /\ trail' = Push(trail, [op |-> "prune", before |-> bundle, after |-> r.bundle,
                                    ok |-> TRUE, reported |-> r.deleted, files |-> <<>>])
    /\ UNCHANGED <<impl, headVars, runVars>>

\* model.go:459-480
Populate ==
    /\ impl = "inliner"
    /\ CanApply
    /\ \E files \in ImageContents :
       \E failAt \in {0} \cup WalkFailures(files) :
        LET r == PopulateObjects(bundle, files, failAt)
        IN  /\ bundle' = r.bundle
            /\ trail' = Push(trail, [op |-> "inline", before |-> bundle, after |-> r.bundle,
                                     ok |-> r.ok, reported |-> r.ok, files |-> files])
    /\ UNCHANGED <<impl, headVars, runVars>>

NextBundle == Prune \/ Inline \/ DeleteObjects \/ Populate

SpecBundle == InitBundle /\ [][NextBundle]_vars

\* The claims' reading of "the properties that are not bundle objects, in
\* order" and of "the bundle-object properties, in order".
RECURSIVE Without(_, _)
Without(props, type) ==
    IF props = <<>> THEN <<>>
    ELSE IF props[1].Type = type THEN Without(Tail(props), type)
    ELSE <<props[1]>> \o Without(Tail(props), type)

RECURSIVE Only(_, _)
Only(props, type) ==
    IF props = <<>> THEN <<>>
    ELSE IF props[1].Type = type THEN <<props[1]>> \o Only(Tail(props), type)
    ELSE Only(Tail(props), type)

HasObjectProps(props) == \E i \in DOMAIN props : props[i].Type = TypeBundleObject

\* C6: a prune or a successful inline leaves the properties that are not bundle
\* objects as they were: same elements, same order.
C6_NonObjectPropsKept ==
    \A i \in DOMAIN trail :
        trail[i].ok =>
            Without(trail[i].after.Properties, TypeBundleObject)
                = Without(trail[i].before.Properties, TypeBundleObject)

C6_Witness ==
    /\ Len(trail) = 2
    /\ trail[1].op = "inline" /\ trail[1].ok /\ trail[2].op = "prune"
    /\ Len(trail[1].before.Properties) = 3
    /\ HasObjectProps(SubSeq(trail[1].before.Properties, 2, 2))
    /\ trail[1].before.Properties[1] # trail[1].before.Properties[3]
    /\ ~HasObjectProps(<<trail[1].before.Properties[1], trail[1].before.Properties[3]>>)
    /\ Len(trail[1].files) = 2

\* The properties a successful inline of the image contents files must leave
\* behind, as the claims state it: the properties that were not bundle
\* objects, then one olm.bundle.object property per extracted object, in the
\* order of extraction, each an inline payload of its object.
InlinedAsClaimed(before, after, files) ==
    LET objs == Only(after, TypeBundleObject)
    IN  /\ Len(objs) = Len(files)
        /\ after = Without(before, TypeBundleObject) \o objs
        /\ \A j \in DOMAIN objs :
              /\ objs[j].Kind = "data"
              /\ objs[j].Body = Marshal(ManifestBytes(files[j]))

\* C7: after a successful inline the bundle-object properties are exactly the
\* extracted objects, in order, after all other properties, each an inline
\* payload and none a file reference; no earlier bundle-object property survives.
C7_InlineAppendsInlinePayloads ==
    \A i \in DOMAIN trail :
        (trail[i].op = "inline" /\ trail[i].ok)
            => InlinedAsClaimed(trail[i].before.Properties, trail[i].after.Properties,
                                trail[i].files)

\* C7, the part that main.go (the "walk" revision) keeps.
C7_WalkInlinesPayloads ==
    impl = "walk" => C7_InlineAppendsInlinePayloads

\* C7, what the "inliner" revision does instead: one file reference
\* objects/<bundle>/<file> per manifest file, the bytes put in b.Objects.
C7_InlinerAppendsReferences ==
    \A i \in DOMAIN trail :
        (impl = "inliner" /\ trail[i].op = "inline" /\ trail[i].ok)
            => LET objs == Only(trail[i].after.Properties, TypeBundleObject)
               IN  /\ Len(objs) = Len(trail[i].files)
                   /\ \A j \in DOMAIN objs : objs[j].Kind = "ref"

\* C8: inline, then prune, of a bundle that had no bundle-object property gives
\* back the property list it started with; the prune removes exactly what the
\* inline added.
C8_InlineThenPruneRestores ==
    (/\ Len(trail) = 2
     /\ trail[1].op = "inline" /\ trail[1].ok
     /\ trail[2].op = "prune"
     /\ ~HasObjectProps(trail[1].before.Properties))
        => /\ trail[2].before = trail[1].after
           /\ trail[2].after.Properties = trail[1].before.Properties
           /\ Len(trail[2].before.Properties) - Len(trail[2].after.Properties)
                = Len(trail[1].files)

C8_Witness ==
    /\ Len(trail) = 2
    /\ trail[1].op = "inline" /\ trail[1].ok /\ trail[2].op = "prune"
    /\ ~HasObjectProps(trail[1].before.Properties)
    /\ Len(trail[1].before.Properties) = 2
    /\ trail[1].before.Properties[1] # trail[1].before.Properties[2]
    /\ trail[1].files = <<"a.yaml", "b.yaml">>
    /\ Len(trail[1].after.Properties) = 4
    /\ trail[2].reported

\* C9: pruning a bundle that has no bundle-object property changes nothing and
\* reports no deletion; a second prune gives what the first gave and reports
\* no deletion.
C9_PruneIdempotent ==
    /\ \A i \in DOMAIN trail :
        (trail[i].op = "prune" /\ ~HasObjectProps(trail[i].before.Properties))
            => /\ trail[i].after.Properties = trail[i].before.Properties
               /\ ~trail[i].reported
    /\ (Len(trail) = 2 /\ trail[1].op = "prune" /\ trail[2].op = "prune")
            => /\ trail[2].after = trail[1].after
               /\ ~trail[2].reported

C9_Witness ==
    /\ Len(trail) = 2
    /\ trail[1].op = "prune" /\ trail[1].reported
    /\ trail[2].op = "prune" /\ ~trail[2].reported
    /\ Len(trail[2].after.Properties) = 2
    /\ Len(trail[1].before.Properties) = 3

(***************************************************************************)
(* The run of the command over a catalog                                   *)
(***************************************************************************)
\* retry.DefaultRetry: at most this many calls of the retried function.
RetrySteps == 5

\* WalkFS visits the catalog files in lexical order.  The second one is
\* sub/b.json or sub/b.yml: its extension is part of the catalog (SecondExts).
CatalogFiles == <<"a.yaml", "sub/b">>
SecondExts == {".json", ".yml"}
FileBundles == [f \in Range(CatalogFiles) |->
                    IF f = "a.yaml" THEN <<"v1", "v2">> ELSE <<"v3">>]
\* cfg.Bundles of the whole catalog, in load order.
AllBundles == <<"v1", "v2", "v3">>
FileOf(v) == CHOOSE f \in DOMAIN FileBundles : v \in Range(FileBundles[f])

\* What an image holds, by image reference.
ContentOf(img) == IF img = "img2" THEN <<"a.yaml">> ELSE <<"a.yaml", "b.yaml">>

Bn(name, replaces, skips) == [Name |-> name, Replaces |-> replaces, Skips |-> skips]

\* Channels of the model ConvertToModel builds: channel name -> Bundles map.
Linear ==
    [stable |-> [v1 |-> Bn("v1", "", <<>>), v2 |-> Bn("v2", "v1", <<>>),
                 v3 |-> Bn("v3", "v2", <<"v1">>)]]
TwoChannels ==
    [stable |-> [v1 |-> Bn("v1", "", <<>>), v2 |-> Bn("v2", "v1", <<>>)],
     alpha |-> [v3 |-> Bn("v3", "", <<>>), v1 |-> Bn("v1", "v3", <<>>)]]
Forked ==
    [stable |-> [v1 |-> Bn("v1", "", <<>>), v2 |-> Bn("v2", "v1", <<>>),
                 v3 |-> Bn("v3", "v1", <<>>)]]
Cycle ==
    [stable |-> [v1 |-> Bn("v1", "v2", <<>>), v2 |-> Bn("v2", "v1", <<>>),
                 v3 |-> Bn("v3", "", <<"v3">>)]]

DistinctImages == [v1 |-> "img1", v2 |-> "img2", v3 |-> "img3"]
\* v1 and v3 are built from the same image.
SharedImage == [v1 |-> "img1", v2 |-> "img2", v3 |-> "img1"]

PkgProp == [Type |-> "olm.package", Kind |-> "raw", Body |-> "pkg"]
GvkProp == [Type |-> "olm.gvk", Kind |-> "raw", Body |-> "gvk"]
DataProp == [Type |-> TypeBundleObject, Kind |-> "data", Body |-> "{old}"]
RefProp == [Type |-> TypeBundleObject, Kind |-> "ref", Body |-> "objects/old.yaml"]
BadProp == [Type |-> TypeBundleObject, Kind |-> "bad", Body |-> "{"]

\* The property lists the bundles of the catalog start with.
PropChoices ==
    {[v1 |-> <<PkgProp, RefProp, GvkProp>>, v2 |-> <<PkgProp>>, v3 |-> <<GvkProp, DataProp>>],
     [v1 |-> <<GvkProp, DataProp>>, v2 |-> <<RefProp, PkgProp, BadProp>>, v3 |-> <<>>]}

Catalogs ==
    {[channels |-> g[1], image |-> g[2], props |-> p, ext |-> e] :
        g \in {<<Linear, DistinctImages>>, <<Linear, SharedImage>>,
               <<TwoChannels, DistinctImages>>, <<Forked, DistinctImages>>,
               <<Cycle, DistinctImages>>},
        p \in PropChoices, e \in SecondExts}

\* args[1:]
ImageArgs == {<<>>, <<"img1">>, <<"img3", "img2">>, <<"img9", "img1">>}

\* filepath.Dir(path) and filepath.Ext(path) of a catalog file.
DirOf(f) == IF f = "a.yaml" THEN "." ELSE "sub"
ExtOf(cat, f) == IF f = "a.yaml" THEN ".yaml" ELSE cat.ext

\* The file references among props.
RefsIn(props) ==
    {props[i].Body : i \in {j \in DOMAIN props : IsObject(props[j]) /\ props[j].Kind = "ref"}}

\* The external manifest files the catalog's reference properties name, each
\* resolved against the directory of its catalog file; all exist at the start.
ReferencedFiles(cat) ==
    UNION {{<<DirOf(FileOf(v)), ref>> : ref \in RefsIn(cat.props[v])} : v \in Range(AllBundles)}

NoTask == [pc |-> "none", i |-> 0, pulls |-> <<>>, err |-> NoError]
TaskIds(im) == IF im = "walk" THEN Range(CatalogFiles) ELSE {"inliner"}

\* A catalog file as it is on disk: how it was written and the property lists
\* of its bundles.
OnDisk(form, props) == [form |-> form, bundles |-> props]

InitRun ==
    /\ impl \in {"walk", "inliner"}
    /\ args \in [prune : BOOLEAN, images : ImageArgs]
    /\ catalog \in Catalogs
    /\ run = [pc |-> "load", pos |-> 1, err |-> NoError, images |-> args.images,
              walkErr |-> NoError]
    /\ nonChannelHeads = {}
    /\ mem = [v \in Range(AllBundles) |-> EmptyBundle]
    /\ disk = [f \in Range(CatalogFiles) |->
                OnDisk("original", [k \in 1..Len(FileBundles[f]) |->
                                        catalog.props[FileBundles[f][k]]])]
    /\ extFiles = ReferencedFiles(catalog)
    /\ task = [t \in TaskIds(impl) |-> NoTask]
    /\ scratch = {}
    /\ trace = [pulled |-> {}, unpacked |-> {}, did |-> [v \in Range(AllBundles) |-> {}]]
    /\ channel = <<>>
    /\ headRes = NotCalled
    /\ bundle = EmptyBundle
    /\ trail = <<>>

Fatal(r, err) == [r EXCEPT !.pc = "fatal", !.err = err]
Failed(t, err) == [t EXCEPT !.pc = "failed", !.err = err]

\* What the loader reads from catalog file f for its k-th bundle.
LoadFrom(f, k) == LoadedBundle(FileBundles[f][k], disk[f].bundles[k])

\* Model.Validate -> Package.Validate -> Channel.Validate (model.go:172): the
\* channels whose Head fails.
InvalidChannels(cat) ==
    {c \in DOMAIN cat.channels :
        ChannelHead(cat.channels[c],
                    CHOOSE o \in Orders(DOMAIN cat.channels[c]) : TRUE).err # NoError}

\* The head of a channel that has exactly one.
HeadImage(cat, c) ==
    cat.image[ChannelHead(cat.channels[c],
                          CHOOSE o \in Orders(DOMAIN cat.channels[c]) : TRUE).bundle]

\* Faulty variant: the head's image taken out of its own channel's images only.
GetAllNonChannelHeadsPerChannel(cat) ==
    IF InvalidChannels(cat) # {}
    THEN [err |-> "graph", set |-> {}]
    ELSE [err |-> NoError,
          set |-> UNION {{cat.image[v] : v \in DOMAIN cat.channels[c]} \ {HeadImage(cat, c)} :
                            c \in DOMAIN cat.channels}]

\* getAllNonChannelHeads (main.go:188-212; model.go:483-505): the images of
\* all bundles of all channels, less the image of every channel's head.
GetAllNonChannelHeads(cat) ==
    IF InvalidChannels(cat) # {}
    THEN [err |-> "graph", set |-> {}]
    ELSE [err |-> NoError,
          set |-> {cat.image[v] : v \in UNION {DOMAIN cat.channels[c] : c \in DOMAIN cat.channels}}
                  \ {HeadImage(cat, c) : c \in DOMAIN cat.channels}]

\* main.go:87 and 99: prune the bundle, skip the inline.
IsPruneTarget(img) == args.prune /\ img \in nonChannelHeads

\* Faulty variant: the inline decision without the non-channel-head test before it.
IsInlineTargetNoSkip(img) == Len(args.images) = 0 \/ img \in Range(args.images)

\* main.go:99-101: the bundle is inlined.
IsInlineTarget(img) ==
    /\ ~(args.prune /\ img \in nonChannelHeads)
    /\ (Len(args.images) = 0 \/ img \in Range(args.images))

\* The retriable function main.go:105-111 hands to retry.OnError.
WalkRetriable(outcome) == outcome # "permanent"
\* The one model.go:425-428 hands to it.
InlinerRetriable(outcome) == TRUE

\* retry.OnError(retry.DefaultRetry, retriable, fn) after one more call of fn
\* ended with outcome: "ok", "again" (fn is called again) or "fail".
\* so far: the calls made before this one.
OnError(sofar, outcome, retriable) ==
    IF outcome = "ok" THEN "ok"
    ELSE IF retriable /\ sofar + 1 < RetrySteps THEN "again"
    ELSE "fail"

PullOutcomes == {"ok", "transient", "permanent"}

\* main.go:56-59
W_Load ==
    /\ impl = "walk" /\ run.pc = "load"
    /\ \E ok \in BOOLEAN :
        run' = IF ok THEN [run EXCEPT !.pc = "check"] ELSE Fatal(run, "load")
    /\ UNCHANGED <<impl, headVars, bundleVars, args, catalog, nonChannelHeads, mem, disk,
                   extFiles, task, scratch, trace>>

\* main.go:61-68
W_CheckRequested ==
    /\ impl = "walk" /\ run.pc = "check"
    /\ LET allBundleImages == {catalog.image[v] : v \in Range(AllBundles)}
           notPresentImages == Range(args.images) \ allBundleImages
       IN  run' = IF notPresentImages # {}
                  THEN Fatal(run, "requested images not found")
                  ELSE [run EXCEPT !.pc = "classify"]
    /\ UNCHANGED <<impl, headVars, bundleVars, args, catalog, nonChannelHeads, mem, disk,
                   extFiles, task, scratch, trace>>

\* Faulty variant: the walk started with the set still empty.
W_ClassifyNothing ==
    /\ impl = "walk" /\ run.pc = "classify"
    /\ LET r == GetAllNonChannelHeads(catalog)
       IN  IF args.prune /\ r.err # NoError
           THEN run' = Fatal(run, r.err) /\ UNCHANGED nonChannelHeads
           ELSE /\ run' = [run EXCEPT !.pc = "walk"]
                /\ nonChannelHeads' = {}
    /\ UNCHANGED <<impl, headVars, bundleVars, args, catalog, mem, disk,
                   extFiles, task, scratch, trace>>

\* main.go:70-76
W_Classify ==
    /\ impl = "walk" /\ run.pc = "classify"
    /\ LET r == GetAllNonChannelHeads(catalog)
       IN  IF args.prune /\ r.err # NoError
           THEN run' = Fatal(run, r.err) /\ UNCHANGED nonChannelHeads
           ELSE /\ run' = [run EXCEPT !.pc = "walk"]
                /\ nonChannelHeads' = IF args.prune THEN r.set ELSE {}
    /\ UNCHANGED <<impl, headVars, bundleVars, args, catalog, mem, disk,
                   extFiles, task, scratch, trace>>

\* main.go:78-83, 169-171: WalkFS hands the next file to the callback, which
\* starts its task; a file that does not load ends the walk with the error
\* the callback returns (main.go:79-81).  run.walkErr is what WalkFS returns;
\* main.go:78 calls it as a statement, so nothing reads that value.
W_Dispatch ==
    /\ impl = "walk" /\ run.pc = "walk"
    /\ IF run.pos > Len(CatalogFiles)
       THEN run' = [run EXCEPT !.pc = "wait"] /\ UNCHANGED <<task, mem>>
       ELSE LET f == CatalogFiles[run.pos]
            IN  \E ok \in BOOLEAN :
                  IF ok
                  THEN /\ task' = [task EXCEPT ![f] = [NoTask EXCEPT !.pc = "loop", !.i = 1]]
                       /\ mem' = [v \in Range(AllBundles) |->
                                    IF v \in Range(FileBundles[f])
                                    THEN LoadFrom(f, CHOOSE k \in DOMAIN FileBundles[f] :
                                                        FileBundles[f][k] = v)
                                    ELSE mem[v]]
                       /\ run' = [run EXCEPT !.pos = @ + 1]
                  ELSE /\ run' = [run EXCEPT !.pc = "wait", !.walkErr = "load file"]
                       /\ UNCHANGED <<task, mem>>
    /\ UNCHANGED <<impl, headVars, bundleVars, args, catalog, nonChannelHeads, disk,
                   extFiles, scratch, trace>>

\* Faulty variant: the wait returns at the first error, tasks still running.
W_WaitFirstError ==
    /\ impl = "walk" /\ run.pc = "wait"
    /\ \/ \A f \in DOMAIN task : task[f].pc \in {"none", "done", "failed"}
       \/ \E f \in DOMAIN task : task[f].pc = "failed"
    /\ IF \E f \in DOMAIN task : task[f].pc = "failed"
       THEN \E f \in {g \in DOMAIN task : task[g].pc = "failed"} :
                run' = Fatal(run, task[f].err)
       ELSE run' = [run EXCEPT !.pc = "exit0"]
    /\ UNCHANGED <<impl, headVars, bundleVars, args, catalog, nonChannelHeads, mem, disk,
                   extFiles, task, scratch, trace>>

\* main.go:173-175: eg.Wait returns when every started task has returned,
\* with the first error any of them returned.
W_Wait ==
    /\ impl = "walk" /\ run.pc = "wait"
    /\ \A f \in DOMAIN task : task[f].pc \in {"none", "done", "failed"}
    /\ IF \E f \in DOMAIN task : task[f].pc = "failed"
       THEN \E f \in {g \in DOMAIN task : task[g].pc = "failed"} :
                run' = Fatal(run, task[f].err)
       ELSE run' = [run EXCEPT !.pc = "exit0"]
    /\ UNCHANGED <<impl, headVars, bundleVars, args, catalog, nonChannelHeads, mem, disk,
                   extFiles, task, scratch, trace>>

\* main.go:84-102: the head of the loop over fcfg.Bundles: the prune branch,
\* then the decision to skip, inline or leave the bundle.
T_Loop(f) ==
    /\ impl = "walk" /\ task[f].pc = "loop"
    /\ IF task[f].i > Len(FileBundles[f])
       THEN /\ task' = [task EXCEPT ![f].pc = "write"]
            /\ UNCHANGED <<mem, trace>>
       ELSE LET v == FileBundles[f][task[f].i]
                img == catalog.image[v]
            IN  /\ IF IsPruneTarget(img)
                   THEN /\ mem' = [mem EXCEPT ![v] = PruneBranch(mem[v]).bundle]
                        /\ trace' = [trace EXCEPT !.did[v] = @ \cup {"prune"}]
                   ELSE UNCHANGED <<mem, trace>>
                /\ task' = IF IsInlineTarget(img)
                           THEN [task EXCEPT ![f].pc = "pull", ![f].pulls = <<>>]
                           ELSE [task EXCEPT ![f].i = @ + 1]
    /\ UNCHANGED <<impl, headVars, bundleVars, args, catalog, run, nonChannelHeads, disk,
                   extFiles, scratch>>

\* main.go:104-114: one call of imageRegistry.Pull under retry.OnError.
T_Pull(f) ==
    /\ impl = "walk" /\ task[f].pc = "pull"
    /\ LET v == FileBundles[f][task[f].i]
       IN  \E outcome \in PullOutcomes :
            LET next == OnError(Len(task[f].pulls), outcome, WalkRetriable(outcome))
                t == [task[f] EXCEPT !.pulls = Append(@, outcome)]
            IN  /\ task' = [task EXCEPT ![f] =
                              IF next = "ok" THEN [t EXCEPT !.pc = "mkdir"]
                              ELSE IF next = "again" THEN t
                              ELSE Failed(t, "pull image")]
                /\ trace' = [trace EXCEPT !.pulled = @ \cup {catalog.image[v]}]
    /\ UNCHANGED <<impl, headVars, bundleVars, args, catalog, run, nonChannelHeads, mem, disk,
                   extFiles, scratch>>

\* Faulty variant: the failing task writes what it has rewritten so far.
T_MkdirFlushOnError(f) ==
    /\ impl = "walk" /\ task[f].pc = "mkdir"
    /\ \E ok \in BOOLEAN :
        IF ok
        THEN /\ scratch' = scratch \cup {<<f, FileBundles[f][task[f].i]>>}
             /\ task' = [task EXCEPT ![f].pc = "unpack"]
             /\ UNCHANGED disk
        ELSE /\ task' = [task EXCEPT ![f] = Failed(@, "mkdir")]
             /\ disk' = [disk EXCEPT ![f] =
                            OnDisk("json", [k \in 1..Len(FileBundles[f]) |->
                                                mem[FileBundles[f][k]].Properties])]
             /\ UNCHANGED scratch
    /\ UNCHANGED <<impl, headVars, bundleVars, args, catalog, run, nonChannelHeads, mem,
                   extFiles, trace>>

\* main.go:116-119: os.MkdirTemp
T_Mkdir(f) ==
    /\ impl = "walk" /\ task[f].pc = "mkdir"
    /\ \E ok \in BOOLEAN :
        IF ok
        THEN /\ scratch' = scratch \cup {<<f, FileBundles[f][task[f].i]>>}
             /\ task' = [task EXCEPT ![f].pc = "unpack"]
        ELSE /\ task' = [task EXCEPT ![f] = Failed(@, "mkdir")]
             /\ UNCHANGED scratch
    /\ UNCHANGED <<impl, headVars, bundleVars, args, catalog, run, nonChannelHeads, mem, disk,
                   extFiles, trace>>

\* main.go:120-122: imageRegistry.Unpack
T_Unpack(f) ==
    /\ impl = "walk" /\ task[f].pc = "unpack"
    /\ \E ok \in BOOLEAN :
        IF ok
        THEN /\ task' = [task EXCEPT ![f].pc = "input"]
             /\ trace' = [trace EXCEPT !.unpacked = @ \cup
                                        {catalog.image[FileBundles[f][task[f].i]]}]
        ELSE /\ task' = [task EXCEPT ![f] = Failed(@, "unpack")]
             /\ UNCHANGED trace
    /\ UNCHANGED <<impl, headVars, bundleVars, args, catalog, run, nonChannelHeads, mem, disk,
                   extFiles, scratch>>

\* main.go:123-152: registry.NewImageInput, then the rewriting of the
\* bundle's properties (the referenced files removed on the way).
T_Inline(f) ==
    /\ impl = "walk" /\ task[f].pc = "input"
    /\ LET v == FileBundles[f][task[f].i]
           files == ContentOf(catalog.image[v])
           r == InlineBranch(mem[v], [k \in 1..Len(files) |-> ManifestBytes(files[k])])
       IN  \E ok \in BOOLEAN :
            IF ~ok
            THEN /\ task' = [task EXCEPT ![f] = Failed(@, "image input")]
                 /\ UNCHANGED <<mem, extFiles, trace>>
            ELSE /\ mem' = [mem EXCEPT ![v] = r.bundle]
                 /\ extFiles' = extFiles \ {<<DirOf(f), ref>> : ref \in r.removed}
                 /\ IF r.ok
                    THEN /\ task' = [task EXCEPT ![f].pc = "loop", ![f].i = @ + 1]
                         /\ trace' = [trace EXCEPT !.did[v] = @ \cup {"inline"}]
                    ELSE /\ task' = [task EXCEPT ![f] = Failed(@, "unmarshal")]
                         /\ UNCHANGED trace
    /\ UNCHANGED <<impl, headVars, bundleVars, args, catalog, run, nonChannelHeads, disk,
                   scratch>>

\* Faulty variant: the task writes every file of the catalog.
T_WriteAll(f) ==
    /\ impl = "walk" /\ task[f].pc = "write"
    /\ task' = [task EXCEPT ![f].pc = "done"]
    /\ disk' = [g \in DOMAIN disk |->
                    OnDisk(IF ExtOf(catalog, g) = ".yaml" THEN "yaml" ELSE "json",
                           [k \in 1..Len(FileBundles[g]) |->
                                mem[FileBundles[g][k]].Properties])]
    /\ UNCHANGED <<impl, headVars, bundleVars, args, catalog, run, nonChannelHeads, mem,
                   extFiles, scratch, trace>>

\* main.go:155-168: the file opened with O_TRUNC and written, as YAML when
\* its extension is .yaml and as JSON otherwise.
T_Write(f) ==
    /\ impl = "walk" /\ task[f].pc = "write"
    /\ \E outcome \in {"ok", "open fails", "write fails"} :
        IF outcome = "open fails"
        THEN /\ task' = [task EXCEPT ![f] = Failed(@, "open")]
             /\ UNCHANGED disk
        ELSE IF outcome = "write fails"
        THEN /\ task' = [task EXCEPT ![f] = Failed(@, "write")]
             /\ disk' = [disk EXCEPT ![f] = OnDisk("truncated", <<>>)]
        ELSE /\ task' = [task EXCEPT ![f].pc = "done"]
             /\ disk' = [disk EXCEPT ![f] =
                            OnDisk(IF ExtOf(catalog, f) = ".yaml" THEN "yaml" ELSE "json",
                                   [k \in 1..Len(FileBundles[f]) |->
                                        mem[FileBundles[f][k]].Properties])]
    /\ UNCHANGED <<impl, headVars, bundleVars, args, catalog, run, nonChannelHeads, mem,
                   extFiles, scratch, trace>>

\* One step of the goroutine eg.Go started for file f (main.go:83-169).
TaskStep(f) ==
    T_Loop(f) \/ T_Pull(f) \/ T_Mkdir(f) \/ T_Unpack(f) \/ T_Inline(f) \/ T_Write(f)

\* One step of the goroutine that runs the command's Run function.
MainStep == W_Load \/ W_CheckRequested \/ W_Classify \/ W_Dispatch \/ W_Wait

NextWalk == MainStep \/ \E f \in Range(CatalogFiles) : TaskStep(f)

\* The bundle InlineBundles looks up for image bi (model.go:384-390): the
\* first of i.cfg.Bundles with that image, 0 when there is none.
FirstWithImage(cat, bi) ==
    LET hits == {k \in DOMAIN AllBundles : cat.image[AllBundles[k]] = bi}
    IN  IF hits = {} THEN 0 ELSE CHOOSE k \in hits : \A j \in hits : k <= j

\* model.go:396: the bundle is skipped as a non-channel-head.
InlinerSkips(img) == img \in nonChannelHeads /\ args.prune

\* model.go:326-335: the catalog directory loaded; without image arguments
\* every bundle's image is taken.
I_Load ==
    /\ impl = "inliner" /\ run.pc = "load"
    /\ \E ok \in BOOLEAN :
        IF ok
        THEN /\ mem' = [v \in Range(AllBundles) |->
                            LoadFrom(FileOf(v), CHOOSE k \in DOMAIN FileBundles[FileOf(v)] :
                                                    FileBundles[FileOf(v)][k] = v)]
             /\ run' = [run EXCEPT !.pc = "classify",
                                   !.images = IF Len(args.images) = 0
                                              THEN [k \in DOMAIN AllBundles |->
                                                        catalog.image[AllBundles[k]]]
                                              ELSE args.images]
        ELSE /\ run' = Fatal(run, "load")
             /\ UNCHANGED mem
    /\ UNCHANGED <<impl, headVars, bundleVars, args, catalog, nonChannelHeads, disk,
                   extFiles, task, scratch, trace>>

\* model.go:378-381
I_Classify ==
    /\ impl = "inliner" /\ run.pc = "classify"
    /\ LET r == GetAllNonChannelHeads(catalog)
       IN  IF r.err # NoError
           THEN run' = Fatal(run, r.err) /\ UNCHANGED <<nonChannelHeads, task>>
           ELSE /\ run' = [run EXCEPT !.pc = "inline"]
                /\ nonChannelHeads' = r.set
                /\ task' = [task EXCEPT !["inliner"].pc = "next"]
    /\ UNCHANGED <<impl, headVars, bundleVars, args, catalog, mem, disk,
                   extFiles, scratch, trace>>

\* model.go:383-405: the next requested image: not in the catalog or a
\* non-channel-head under the flag: skipped; else PopulateBundleObjects.
I_Next ==
    /\ impl = "inliner" /\ run.pc = "inline" /\ task["inliner"].pc = "next"
    /\ IF run.pos > Len(run.images)
       THEN /\ run' = [run EXCEPT !.pc = "prune"]
            /\ task' = [task EXCEPT !["inliner"].pc = "none"]
       ELSE LET bi == run.images[run.pos]
                k == FirstWithImage(catalog, bi)
            IN  IF k = 0 \/ InlinerSkips(bi)
                THEN run' = [run EXCEPT !.pos = @ + 1] /\ UNCHANGED task
                ELSE /\ task' = [task EXCEPT !["inliner"].pc = "pull",
                                             !["inliner"].i = k,
                                             !["inliner"].pulls = <<>>]
                     /\ UNCHANGED run
    /\ UNCHANGED <<impl, headVars, bundleVars, args, catalog, nonChannelHeads, mem, disk,
                   extFiles, scratch, trace>>

\* model.go:424-431: one call of i.imageRegistry.Pull under retry.OnError.
I_Pull ==
    /\ impl = "inliner" /\ task["inliner"].pc = "pull"
    /\ \E outcome \in PullOutcomes :
        LET next == OnError(Len(task["inliner"].pulls), outcome, InlinerRetriable(outcome))
            t == [task["inliner"] EXCEPT !.pulls = Append(@, outcome)]
        IN  /\ task' = [task EXCEPT !["inliner"] =
                          IF next = "ok" THEN [t EXCEPT !.pc = "labels"]
                          ELSE IF next = "again" THEN t
                          ELSE Failed(t, "pull image")]
            /\ run' = IF next = "fail" THEN Fatal(run, "pull image") ELSE run
            /\ trace' = [trace EXCEPT !.pulled = @ \cup {run.images[run.pos]}]
    /\ UNCHANGED <<impl, headVars, bundleVars, args, catalog, nonChannelHeads, mem, disk,
                   extFiles, scratch>>

\* model.go:433-441: the labels read, the scratch directory created.
I_TempDir ==
    /\ impl = "inliner" /\ task["inliner"].pc = "labels"
    /\ \E outcome \in {"ok", "labels fail", "tempdir fails"} :
        IF outcome = "ok"
        THEN /\ scratch' = scratch \cup {<<"inliner", AllBundles[task["inliner"].i]>>}
             /\ task' = [task EXCEPT !["inliner"].pc = "unpack"]
             /\ UNCHANGED run
        ELSE /\ task' = [task EXCEPT !["inliner"] = Failed(@, outcome)]
             /\ run' = Fatal(run, outcome)
             /\ UNCHANGED scratch
    /\ UNCHANGED <<impl, headVars, bundleVars, args, catalog, nonChannelHeads, mem, disk,
                   extFiles, trace>>

\* model.go:442-481: the image unpacked and its manifest files collected;
\* the deferred os.RemoveAll(tempDir) runs on every return.
I_Collect ==
    /\ impl = "inliner" /\ task["inliner"].pc = "unpack"
    /\ LET v == AllBundles[task["inliner"].i]
           files == ContentOf(run.images[run.pos])
       IN  \E unpacked \in BOOLEAN :
           \E failAt \in {0} \cup WalkFailures(files) :
            LET r == PopulateObjects(mem[v], files, failAt)
            IN  /\ scratch' = scratch \ {<<"inliner", v>>}
                /\ IF ~unpacked
                   THEN /\ task' = [task EXCEPT !["inliner"] = Failed(@, "unpack")]
                        /\ run' = Fatal(run, "unpack")
                        /\ UNCHANGED <<mem, trace>>
                   ELSE /\ mem' = [mem EXCEPT ![v] = r.bundle]
                        /\ IF r.ok
                           THEN /\ task' = [task EXCEPT !["inliner"].pc = "next"]
                                /\ run' = [run EXCEPT !.pos = @ + 1]
                                /\ trace' = [trace EXCEPT
                                                !.unpacked = @ \cup {run.images[run.pos]},
                                                !.did[v] = @ \cup {"inline"}]
                           ELSE /\ task' = [task EXCEPT !["inliner"] = Failed(@, "collect objects")]
                                /\ run' = Fatal(run, "collect objects")
                                /\ trace' = [trace EXCEPT
                                                !.unpacked = @ \cup {run.images[run.pos]}]
    /\ UNCHANGED <<impl, headVars, bundleVars, args, catalog, nonChannelHeads, disk, extFiles>>

\* model.go:407-419: under the flag, deleteBundleObjects on every bundle whose
\* image is a non-channel-head.
I_Prune ==
    /\ impl = "inliner" /\ run.pc = "prune"
    /\ LET hit == {v \in Range(AllBundles) :
                        args.prune /\ catalog.image[v] \in nonChannelHeads}
       IN  /\ mem' = [v \in Range(AllBundles) |->
                        IF v \in hit THEN DeleteBundleObjects(mem[v]).bundle ELSE mem[v]]
           /\ trace' = [trace EXCEPT !.did = [v \in Range(AllBundles) |->
                                        IF v \in hit THEN @[v] \cup {"prune"} ELSE @[v]]]
    /\ run' = [run EXCEPT !.pc = "write"]
    /\ UNCHANGED <<impl, headVars, bundleVars, args, catalog, nonChannelHeads, disk,
                   extFiles, task, scratch>>

\* model.go:341-356: the directory moved aside, written anew from i.cfg, the
\* backup put back when the writing fails.
I_WriteDir ==
    /\ impl = "inliner" /\ run.pc = "write"
    /\ \E outcome \in {"ok", "backup fails", "write fails"} :
        IF outcome = "ok"
        THEN /\ disk' = [f \in Range(CatalogFiles) |->
                            OnDisk("dir", [k \in 1..Len(FileBundles[f]) |->
                                                mem[FileBundles[f][k]].Properties])]
             /\ run' = [run EXCEPT !.pc = "exit0"]
        ELSE /\ run' = Fatal(run, outcome)
             /\ UNCHANGED disk
    /\ UNCHANGED <<impl, headVars, bundleVars, args, catalog, nonChannelHeads, mem,
                   extFiles, task, scratch, trace>>

NextInliner ==
    I_Load \/ I_Classify \/ I_Next \/ I_Pull \/ I_TempDir \/ I_Collect \/ I_Prune \/ I_WriteDir

Next == NextWalk \/ NextInliner

Spec == InitRun /\ [][Next]_vars

\* The Go scheduler lets every goroutine that can take a step take one: the
\* one running Run, and each one eg.Go started.
\* The runs of main.go over the catalogs with the linear graph.
InitFair == InitRun /\ impl = "walk" /\ catalog.channels = Linear /\ catalog.ext = ".json"

SpecFair ==
    /\ InitFair /\ [][NextWalk]_vars
    /\ WF_vars(MainStep)
    /\ \A f \in Range(CatalogFiles) : WF_vars(TaskStep(f))

\* Bundle v has been passed by the loop that decides about it: the loop of
\* its file's task (walk), the two loops of InlineBundles (inliner).
Processed(v) ==
    IF impl = "walk"
    THEN LET f == FileOf(v)
             k == CHOOSE j \in DOMAIN FileBundles[f] : FileBundles[f][j] = v
         IN  task[f].pc # "none" /\ task[f].i > k
    ELSE \/ run.pc \in {"write", "exit0"}
         \/ run.pc = "fatal" /\ run.err \in {"backup fails", "write fails"}

\* C4: under the prune flag a bundle whose image is in the non-head set is
\* pruned and never inlined, its image never pulled or unpacked, whatever the
\* requested set; no bundle is both pruned and inlined in a run.
C4_PruneWinsOverInline ==
    /\ \A v \in Range(AllBundles) : ~({"prune", "inline"} \subseteq trace.did[v])
    /\ args.prune =>
        \A v \in Range(AllBundles) :
            catalog.image[v] \in nonChannelHeads =>
                /\ "inline" \notin trace.did[v]
                /\ catalog.image[v] \notin trace.pulled \cup trace.unpacked
                /\ \A d \in scratch : d[2] # v
                /\ Processed(v) => /\ "prune" \in trace.did[v]
                                   /\ ~HasObjectProps(mem[v].Properties)

C4_Witness ==
    /\ args.prune /\ run.pc = "exit0"
    /\ \E v \in Range(AllBundles) :
        /\ catalog.image[v] \in nonChannelHeads \cap Range(args.images)
        /\ HasObjectProps(catalog.props[v])
        /\ trace.did[v] = {"prune"}
        /\ ~HasObjectProps(mem[v].Properties)
    /\ \E w \in Range(AllBundles) : trace.did[w] = {"inline"}

\* C5: a pull that fails with the permanent-failure error is not attempted
\* again; one that fails with another error is attempted again until it
\* succeeds or the budget of attempts is used up, and only then the task fails
\* with the pull error; the attempts never exceed the budget.
C5_PullRetryPolicy ==
    \A t \in DOMAIN task :
        LET p == task[t].pulls
        IN  /\ Len(p) <= RetrySteps
            /\ \A i \in 1..(Len(p) - 1) : p[i] = "transient"
            /\ (Len(p) > 0 /\ p[Len(p)] = "transient" /\ Len(p) < RetrySteps)
                    => task[t].pc = "pull"
            /\ (task[t].pc = "failed" /\ task[t].err = "pull image")
                    => /\ Len(p) > 0
                       /\ \/ p[Len(p)] = "permanent"
                          \/ p[Len(p)] = "transient" /\ Len(p) = RetrySteps

\* C5, as main.go (the "walk" revision) keeps it.
C5_WalkRetryPolicy == impl = "walk" => C5_PullRetryPolicy

\* C10: when a task has finished, on whatever path, no scratch directory it
\* created exists.
C10_ScratchRemoved ==
    \A t \in DOMAIN task :
        task[t].pc \in {"done", "failed"} => \A d \in scratch : d[1] # t

\* C10, as the "inliner" revision keeps it: the scratch directory exists only
\* between its creation and the return of PopulateBundleObjects.
C10_InlinerScratchRemoved ==
    impl = "inliner" => \A d \in scratch : task[d[1]].pc = "unpack"

\* The errors a file task returns (main.go:113-165), as eg.Wait hands them on.
TaskErrors == {"pull image", "mkdir", "unpack", "image input", "unmarshal", "open", "write"}

Started(f) == f \in DOMAIN task /\ task[f].pc # "none"
Finished(f) == f \in DOMAIN task /\ task[f].pc \in {"done", "failed"}

\* The outcome eg.Wait leads to has been reported.
Reported == run.pc = "exit0" \/ (run.pc = "fatal" /\ run.err \in TaskErrors)

C11_ReportedAfterAllTasks ==
    (impl = "walk" /\ Reported) =>
        /\ \A f \in DOMAIN task : Started(f) => Finished(f)
        /\ run.pc = "fatal" <=> \E f \in DOMAIN task : task[f].pc = "failed"
        /\ run.pc = "fatal" => \E f \in DOMAIN task :
                                    task[f].pc = "failed" /\ task[f].err = run.err

Untouched ==
    /\ \A t \in DOMAIN task : task[t].pc = "none"
    /\ \A v \in Range(AllBundles) : trace.did[v] = {}
    /\ trace.pulled = {} /\ trace.unpacked = {}
    /\ extFiles = ReferencedFiles(catalog)
    /\ \A f \in DOMAIN disk : disk[f].form = "original"

\* The errors Run reports before the walk starts.
EarlyErrors == {"load", "requested images not found", "graph"}

\* C12: over a catalog in which a channel has no head or several, the run
\* ends with the graph error (or an earlier one) and touches nothing.
C12_GraphErrorBeforeTasks ==
    InvalidChannels(catalog) # {} =>
        /\ Untouched
        /\ run.pc \notin {"load", "check", "classify"} =>
                run.pc = "fatal" /\ run.err \in EarlyErrors

\* C12 where the classification runs: main.go under --prune-non-head-objects,
\* and the inliner revision always.
C12_WhenClassified == (impl = "inliner" \/ args.prune) => C12_GraphErrorBeforeTasks

\* The graph error is what such a run ends with, unless it failed before.
C12_GraphErrorReached ==
    (InvalidChannels(catalog) # {} /\ (impl = "inliner" \/ args.prune)
        /\ run.pc = "fatal" /\ run.err \notin {"load", "requested images not found"})
    => run.err = "graph"

\* C13: a run in which an unrecoverable error was raised (by the load, by
\* the walk's load of a file, by the classification, by a task) does not
\* end in success, and a failed run reports an error.
C13_ErrorsEndInFailure ==
    /\ run.pc = "exit0" =>
            /\ run.walkErr = NoError
            /\ \A t \in DOMAIN task : task[t].pc # "failed"
    /\ run.pc = "fatal" => run.err # NoError

\* C13 for every error but the one WalkFS returns.
C13_TaskErrorsEndInFailure ==
    /\ run.pc = "exit0" => \A t \in DOMAIN task : task[t].pc # "failed"
    /\ run.pc = "fatal" => run.err # NoError
    /\ impl = "inliner" => run.walkErr = NoError

\* The external files the reference properties bundle v was loaded with name.
FilesOf(v) == {<<DirOf(FileOf(v)), ref>> : ref \in RefsIn(catalog.props[v])}

\* C14: once main.go has pruned a bundle, no external file that one of its
\* removed reference properties named exists any more.
C14_PruneDeletesReferencedFiles ==
    impl = "walk" =>
        \A v \in Range(AllBundles) :
            "prune" \in trace.did[v] => FilesOf(v) \cap extFiles = {}

\* What main.go does keep: the inline branch removes the files the replaced
\* reference properties named (main.go:137-139).
C14_InlineDeletesReferencedFiles ==
    impl = "walk" =>
        \A v \in Range(AllBundles) :
            "inline" \in trace.did[v] => FilesOf(v) \cap extFiles = {}

\* The bundles of channel ch that no bundle of ch replaces or skips.
HeadsOf(ch) ==
    {b \in DOMAIN ch :
        \A k \in DOMAIN ch : ch[k].Replaces # b /\ b \notin Range(ch[k].Skips)}

\* The images of the bundles of the whole catalog that are in a channel,
\* less the images of the channel heads.
NonHeadImages(cat) ==
    {cat.image[v] : v \in UNION {DOMAIN cat.channels[c] : c \in DOMAIN cat.channels}}
        \ {cat.image[v] : v \in UNION {HeadsOf(cat.channels[c]) : c \in DOMAIN cat.channels}}

C16_Step ==
    impl = "walk" =>
        /\ \A v \in Range(AllBundles) :
                mem'[v] # mem[v] =>
                    LET f == FileOf(v)
                    IN  /\ task'[f] # task[f]
                        /\ \A g \in DOMAIN task \ {f} : task'[g] = task[g]
                        /\ Started(f) => /\ task[f].i \in DOMAIN FileBundles[f]
                                         /\ FileBundles[f][task[f].i] = v
        /\ \A f \in DOMAIN disk :
                disk'[f] # disk[f] =>
                    /\ task[f].pc = "write" /\ task'[f].pc \in {"done", "failed"}
                    /\ \A g \in DOMAIN task \ {f} : task'[g] = task[g]
        /\ \A f \in DOMAIN task :
                (Started(f) /\ task'[f].i # task[f].i) => task'[f].i = task[f].i + 1

\* C16: whatever the interleaving of the file tasks, every sub-catalog and
\* every catalog file is written by the task of its own file alone, and a
\* task goes through the bundles of its file one after another.
C16_PartitionedByFile == [][C16_Step]_vars

C16_Witness ==
    /\ impl = "walk" /\ run.pc = "wait"
    /\ task["a.yaml"].pc = "input" /\ task["a.yaml"].i = 2
    /\ trace.did["v1"] = {"inline"}
    /\ task["sub/b"].pc = "done" /\ disk["sub/b"].form # "original"
    /\ trace.did["v3"] = {"inline"}
    /\ disk["a.yaml"].form = "original"

\* Catalog file f as it was when the run started.
OriginalFile(f) ==
    OnDisk("original", [k \in 1..Len(FileBundles[f]) |-> catalog.props[FileBundles[f][k]]])

\* The errors a task returns from inside its loop over the bundles.
LoopErrors == {"pull image", "mkdir", "unpack", "image input", "unmarshal"}

C18_FormatByExtension ==
    impl = "walk" =>
        \A f \in DOMAIN task :
            task[f].pc = "done" =>
                disk[f].form = IF ExtOf(catalog, f) \in {".yaml", ".yml"}
                               THEN "yaml" ELSE "json"

\* What main.go does: YAML for .yaml alone, JSON for every other extension;
\* and every file whose task came to its end is written, touched or not.
C18_YamlForDotYamlOnly ==
    impl = "walk" =>
        \A f \in DOMAIN task :
            task[f].pc = "done" =>
                /\ disk[f].form = IF ExtOf(catalog, f) = ".yaml" THEN "yaml" ELSE "json"
                /\ disk[f].bundles = [k \in 1..Len(FileBundles[f]) |->
                                        mem[FileBundles[f][k]].Properties]

\* Bundle v is neither an inline-target nor a prune-target of the run: images
\* were requested, its image is not among them, and it is not a non-head
\* with pruning asked for.
IsUntouched(v) ==
    /\ Len(args.images) > 0
    /\ catalog.image[v] \notin Range(args.images)
    /\ ~(args.prune /\ catalog.image[v] \in NonHeadImages(catalog))

\* Where bundle v is in its file.
IndexOf(v) == CHOOSE k \in DOMAIN FileBundles[FileOf(v)] : FileBundles[FileOf(v)][k] = v

\* An untouched bundle keeps its property list, in memory and in whatever
\* the run writes; its image is never pulled, none of its files removed.
C19_UntouchedKept ==
    \A v \in Range(AllBundles) :
        IsUntouched(v) =>
            /\ trace.did[v] = {}
            /\ mem[v] \in {EmptyBundle, LoadedBundle(v, catalog.props[v])}
            /\ catalog.image[v] \notin trace.pulled \cup trace.unpacked
            /\ FilesOf(v) \subseteq extFiles
            /\ disk[FileOf(v)].form \in {"original", "yaml", "json", "dir"} =>
                    disk[FileOf(v)].bundles[IndexOf(v)] = catalog.props[v]

\* The run came to its end and no error was raised on the way.
Succeeded == run.pc = "exit0" /\ run.walkErr = NoError

\* With images requested and no pruning, a run that succeeded has inlined
\* the bundles whose image was requested, and no other.
InlinedExactlyRequested ==
    (~args.prune /\ Len(args.images) > 0 /\ Succeeded) =>
        {v \in Range(AllBundles) : "inline" \in trace.did[v]}
            = {v \in Range(AllBundles) : catalog.image[v] \in Range(args.images)}

\* C19: untouched bundles are left as they are, and with pruning disabled
\* and images requested exactly the bundles with a requested image are
\* inlined.
C19_UntouchedAndRequested == C19_UntouchedKept /\ InlinedExactlyRequested

\* The second half of C19, as main.go keeps it.
C19_WalkInlinesRequested == impl = "walk" => InlinedExactlyRequested

\* The requested images that no bundle of the catalog has.
NotPresent == Range(args.images) \ {catalog.image[v] : v \in Range(AllBundles)}

\* C20: when a requested image is not in the catalog the run stops before
\* the classification with the 'requested images not found' error (or with
\* the load error before it), and nothing is touched.
C20_MissingImageAborts ==
    NotPresent # {} =>
        /\ Untouched
        /\ nonChannelHeads = {}
        /\ run.pc \in {"load", "check", "fatal"}
        /\ run.pc = "fatal" => run.err \in {"load", "requested images not found"}

\* C20, as main.go keeps it.
C20_WalkMissingImageAborts == impl = "walk" => C20_MissingImageAborts

\* What the inliner revision does instead: the missing image is passed
\* over, the images that are present are pulled and their bundles inlined.
C20_InlinerCarriesOn ==
    (impl = "inliner" /\ NotPresent # {} /\ run.pc = "exit0" /\ ~args.prune) =>
        /\ trace.pulled = Range(args.images) \ NotPresent
        /\ \A v \in Range(AllBundles) :
                "inline" \in trace.did[v] => catalog.image[v] \in Range(args.images)

\* The external files that the reference properties of catalog file f, as it
\* is on disk, name and that the run has removed.
Dangling(f) ==
    {<<DirOf(f), ref>> : ref \in UNION {RefsIn(disk[f].bundles[k]) : k \in DOMAIN disk[f].bundles}}
        \cap (ReferencedFiles(catalog) \ extFiles)

\* C22: when a run of main.go has ended, no catalog file on disk references
\* an external file the run removed.
C22_NoDanglingReference ==
    (impl = "walk" /\ run.pc \in {"exit0", "fatal"}) =>
        \A f \in DOMAIN disk : Dangling(f) = {}

\* What main.go keeps: a file its task has written back references no
\* removed file, and files are removed by the inline branch alone.
C22_WrittenFilesNotDangling ==
    impl = "walk" =>
        /\ \A f \in DOMAIN task : task[f].pc = "done" => Dangling(f) = {}
        /\ \A v \in Range(AllBundles) :
                FilesOf(v) \cap extFiles # FilesOf(v) => task[FileOf(v)].i = IndexOf(v)
                                                        \/ "inline" \in trace.did[v]

(***************************************************************************)
(* getAllNonChannelHeads over the catalogs of two channels                 *)
(***************************************************************************)
\* Channel stable holds v1, v2 and v3, channel alpha holds v1 and v3; every
\* bundle replaces nothing or a bundle of {v1, v2, v3}, and v3 may skip v1.
ReplaceChoices == {"", "v1", "v2", "v3"}
ClassifyCatalogs ==
    {[channels |->
        [stable |-> [v1 |-> Bn("v1", r[1], <<>>), v2 |-> Bn("v2", r[2], <<>>),
                     v3 |-> Bn("v3", r[3], sk)],
         alpha |-> [v1 |-> Bn("v1", q[1], <<>>), v3 |-> Bn("v3", q[2], <<>>)]],
      image |-> im, props |-> [v \in Range(AllBundles) |-> <<>>], ext |-> ".json"] :
        r \in [1..3 -> ReplaceChoices], q \in [1..2 -> {"", "v1", "v3"}],
        sk \in {<<>>, <<"v1">>}, im \in {DistinctImages, SharedImage}}

\* The run is at the classification, pruning asked for.
InitClassify ==
    /\ impl \in {"walk", "inliner"}
    /\ args = [prune |-> TRUE, images |-> <<>>]
    /\ catalog \in ClassifyCatalogs
    /\ run = [pc |-> "classify", pos |-> 1, err |-> NoError, images |-> <<>>,
              walkErr |-> NoError]
    /\ nonChannelHeads = {}
    /\ mem = [v \in Range(AllBundles) |-> LoadedBundle(v, catalog.props[v])]
    /\ disk = [f \in Range(CatalogFiles) |-> OriginalFile(f)]
    /\ extFiles = {}
    /\ task = [t \in TaskIds(impl) |-> NoTask]
    /\ scratch = {}
    /\ trace = [pulled |-> {}, unpacked |-> {}, did |-> [v \in Range(AllBundles) |-> {}]]
    /\ channel = <<>>
    /\ headRes = NotCalled
    /\ bundle = EmptyBundle
    /\ trail = <<>>

NextClassify == W_Classify \/ I_Classify

SpecClassify == InitClassify /\ [][NextClassify]_vars

\* getAllNonChannelHeads has returned without error.
Classified == run.pc \in {"walk", "inline"}

\* C21: the set getAllNonChannelHeads returns holds exactly the images of
\* bundles of the catalog that are not the image of the head of any channel;
\* so no channel head's image is in it, whatever the bundle is in another
\* channel.
C21_NonHeadSet ==
    Classified =>
        /\ \A img \in {"img1", "img2", "img3", "img9"} :
                img \in nonChannelHeads <=>
                    /\ \E v \in Range(AllBundles) : catalog.image[v] = img
                    /\ \A c \in DOMAIN catalog.channels :
                        \A h \in HeadsOf(catalog.channels[c]) : catalog.image[h] # img
        /\ nonChannelHeads \subseteq {"img1", "img2", "img3"}

\* v1 is the head of alpha and is replaced in stable, whose head is v3.
C21_Witness ==
    /\ Classified
    /\ catalog.image = DistinctImages
    /\ HeadsOf(catalog.channels["alpha"]) = {"v1"}
    /\ HeadsOf(catalog.channels["stable"]) = {"v3"}
    /\ catalog.channels["stable"]["v2"].Replaces = "v1"
    /\ nonChannelHeads = {"img2"}

=============================================================================
